---- MODULE Spec2Model ----
(***************************************************************************)
(* Model of the EU ETS emissions module (src/ets_emissions_module.py):     *)
(* the coal-to-gas switching price, its market-regime interpretation, the  *)
(* enrichment of a scenario summary table, the metric taxonomy and the BI  *)
(* long-format export; and of the merit-order dispatch the dashboard       *)
(* (src/streamlit_app.py) runs, after sections 4.1 and 4.2 of the design.  *)
(*                                                                         *)
(* Numbers are exact rationals <<n, d>> in lowest terms with d >= 0.       *)
(* d = 0 encodes the non-finite values numpy produces on a division by     *)
(* zero: <<1,0>> = inf, <<-1,0>> = -inf, <<0,0>> = NaN.  Rounding of IEEE  *)
(* doubles is not represented.  A tagged number [t, v] remembers whether   *)
(* the value is a plain Python number ("py") or a numpy scalar ("np"):     *)
(* the two differ in what a division by zero does.                         *)
(***************************************************************************)
EXTENDS Integers, Sequences, FiniteSets, TLC

VARIABLES
    plants_df,       \* the plant roster
    params,          \* efficiencies and emission factors the caller passes
    heap,            \* the DataFrame objects alive, by reference
    summary_df,      \* the caller's reference to its scenario summary, if any
    switching_data,  \* the switching-price dictionary the caller holds, if any
    metric_name,     \* the metric name a caller classifies, as characters, if any
    scenarios_df,    \* the scenario table the dispatch is run for, if any
    ret,             \* the last call: its name, arguments and outcome
    stdout           \* what the last call printed

vars == <<plants_df, params, heap, summary_df, switching_data, metric_name, scenarios_df, ret, stdout>>

----------------------------------------------------------------------------
(* Bounds of the explored inputs *)

MaxPlants == 3

MaxRows == 2

MaxWords == 2

MaxScenarios == 2

----------------------------------------------------------------------------
(* Rational arithmetic *)

Abs(n) == IF n < 0 THEN -n ELSE n

Sign(n) == IF n < 0 THEN -1 ELSE IF n > 0 THEN 1 ELSE 0

RECURSIVE GCD(_, _)
GCD(a, b) == IF b = 0 THEN a ELSE GCD(b, a % b)

Norm(n, d) ==
    IF d = 0 THEN <<Sign(n), 0>>
    ELSE LET g == GCD(Abs(n), Abs(d))
             s == Sign(d)
         IN  <<(s * n) \div g, (s * d) \div g>>

Q(n, d) == Norm(n, d)

IsNaN(a) == a[1] = 0 /\ a[2] = 0

IsFinite(a) == a[2] # 0

RAdd(a, b) == Norm(a[1] * b[2] + b[1] * a[2], a[2] * b[2])

RSub(a, b) == Norm(a[1] * b[2] - b[1] * a[2], a[2] * b[2])

RMul(a, b) == Norm(a[1] * b[1], a[2] * b[2])

\* a / b with numpy semantics: a zero divisor yields inf, -inf or NaN.
RDiv(a, b) == Norm(a[1] * b[2], a[2] * b[1])

RAbs(a) == <<Abs(a[1]), a[2]>>

\* Comparisons are false as soon as one side is NaN, as in IEEE 754.
RLt(a, b) == ~IsNaN(a) /\ ~IsNaN(b) /\ a[1] * b[2] < b[1] * a[2]

RLe(a, b) == ~IsNaN(a) /\ ~IsNaN(b) /\ a[1] * b[2] <= b[1] * a[2]

RGt(a, b) == RLt(b, a)

Zero == Q(0, 1)

Hundred == Q(100, 1)

Num(t, v) == [t |-> t, v |-> v]

\* Type of the result of a binary operation: numpy wins over Python.
Join(x, y) == IF x.t = "np" \/ y.t = "np" THEN "np" ELSE "py"

----------------------------------------------------------------------------
(* Section 1: switching price *)

\* Outcome of a call: the exception raised (type and message), or the value
\* returned as a one-element sequence.
Raise(exc, msg) == [raised |-> exc, message |-> msg, value |-> <<>>]

Return(v) == [raised |-> "", message |-> "", value |-> <<v>>]

RECURSIVE SumSeq(_)
SumSeq(s) == IF s = <<>> THEN Zero ELSE RAdd(Head(s), SumSeq(Tail(s)))

\* Series.mean(): NaN for an empty series.
Mean(s) == RDiv(SumSeq(s), Q(Len(s), 1))

Column(rows, col) == [i \in 1..Len(rows) |-> rows[i][col]]

IsCoal(p) == p.Technology = "Coal"

IsGasFamily(p) == p.Technology \in {"Gas", "Gas Peaker"}

SelectCoalPlants(df) == SelectSeq(df, IsCoal)

\* Mutation of SelectGasPlants: Gas Peaker plants are left out.
SelectGasPlants_GasOnly(df) ==
    LET IsGas(p) == p.Technology = "Gas"
    IN  SelectSeq(df, IsGas)

SelectGasPlants(df) == SelectSeq(df, IsGasFamily)

\* Mutation of PartitionError: the check for gas plants is missing.
PartitionError_CoalOnly(coal_plants, gas_plants) ==
    IF Len(coal_plants) = 0 THEN "No coal plants found in database" ELSE ""

\* The two emptiness checks, in the order of the code; "" when both pass.
PartitionError(coal_plants, gas_plants) ==
    IF Len(coal_plants) = 0 THEN "No coal plants found in database"
    ELSE IF Len(gas_plants) = 0 THEN "No gas plants found in database"
    ELSE ""

\* Mutation of DenominatorInvalid: a zero denominator passes.
DenominatorInvalid_Strict(denominator) == RLt(denominator, Zero)

DenominatorInvalid(denominator) == RLe(denominator, Zero)

\* Mutation of SwitchingPriceFormula: the numerator is coal minus gas.
SwitchingPriceFormula_Swapped(coal_gen_cost, gas_gen_cost, coal_emission_rate, gas_emission_rate) ==
    RDiv(RSub(coal_gen_cost, gas_gen_cost), RSub(coal_emission_rate, gas_emission_rate))

SwitchingPriceFormula(coal_gen_cost, gas_gen_cost, coal_emission_rate, gas_emission_rate) ==
    RDiv(RSub(gas_gen_cost, coal_gen_cost), RSub(coal_emission_rate, gas_emission_rate))

CostAtSwitch(gen_cost, switching_price, emission_rate) ==
    RAdd(gen_cost, RMul(switching_price, emission_rate))

FormulaValidation(coal_cost_at_switch, gas_cost_at_switch) ==
    RLt(RAbs(RSub(coal_cost_at_switch, gas_cost_at_switch)), Q(1, 100))

calculate_switching_price(df, coal_efficiency, gas_efficiency, coal_emission_factor, gas_emission_factor) ==
    LET coal_plants == SelectCoalPlants(df)
        gas_plants == SelectGasPlants(df)
        err == PartitionError(coal_plants, gas_plants)
        coal_fuel_cost == Mean(Column(coal_plants, "Fuel_Cost_EUR_MWh"))
        gas_fuel_cost == Mean(Column(gas_plants, "Fuel_Cost_EUR_MWh"))
        \* numpy scalar / Python float: never raises
        coal_gen_cost == RDiv(coal_fuel_cost, coal_efficiency)
        gas_gen_cost == RDiv(gas_fuel_cost, gas_efficiency)
        \* Python float / Python float: ZeroDivisionError on a zero divisor
        coal_emission_rate == RDiv(coal_emission_factor, coal_efficiency)
        gas_emission_rate == RDiv(gas_emission_factor, gas_efficiency)
        denominator == RSub(coal_emission_rate, gas_emission_rate)
        switching_price == SwitchingPriceFormula(coal_gen_cost, gas_gen_cost,
                                                 coal_emission_rate, gas_emission_rate)
        coal_cost_at_switch == CostAtSwitch(coal_gen_cost, switching_price, coal_emission_rate)
        gas_cost_at_switch == CostAtSwitch(gas_gen_cost, switching_price, gas_emission_rate)
    IN  IF err # "" THEN Raise("ValueError", err)
        ELSE IF coal_efficiency = Zero \/ gas_efficiency = Zero
        THEN Raise("ZeroDivisionError", "float division by zero")
        ELSE IF DenominatorInvalid(denominator)
        THEN Raise("ValueError",
                   "Invalid emission factors: Gas must have lower emissions than coal")
        ELSE Return([switching_price_eur_ton |-> Num("np", switching_price),
                     coal_fuel_cost_eur_mwh |-> Num("np", coal_fuel_cost),
                     gas_fuel_cost_eur_mwh |-> Num("np", gas_fuel_cost),
                     coal_generation_cost_eur_mwh |-> Num("np", coal_gen_cost),
                     gas_generation_cost_eur_mwh |-> Num("np", gas_gen_cost),
                     coal_emission_rate_t_mwh |-> Num("py", coal_emission_rate),
                     gas_emission_rate_t_mwh |-> Num("py", gas_emission_rate),
                     coal_srmc_at_switching_eur_mwh |-> Num("np", coal_cost_at_switch),
                     gas_srmc_at_switching_eur_mwh |-> Num("np", gas_cost_at_switch),
                     formula_validation |-> FormulaValidation(coal_cost_at_switch,
                                                              gas_cost_at_switch)])

\* (coal_efficiency, gas_efficiency, coal_emission_factor, gas_emission_factor)
Param(ce, ge, cef, gef) ==
    [coal_efficiency |-> ce, gas_efficiency |-> ge,
     coal_emission_factor |-> cef, gas_emission_factor |-> gef]

\* Mutation of default_params: the two default efficiencies are exchanged.
default_params_Exchanged == Param(Q(55, 100), Q(38, 100), Q(34, 100), Q(20, 100))

\* The default values of the keyword arguments of calculate_switching_price.
default_params == Param(Q(38, 100), Q(55, 100), Q(34, 100), Q(20, 100))

\* Mutation of Regime: a carbon price equal to the switching price counts as coal dominated.
Regime_Inclusive(current_carbon_price, switching_price) ==
    IF RLe(current_carbon_price, switching_price) THEN "COAL-DOMINATED"
    ELSE IF RGt(current_carbon_price, switching_price) THEN "GAS-DOMINATED"
    ELSE "TRANSITION ZONE"

Regime(current_carbon_price, switching_price) ==
    IF RLt(current_carbon_price, switching_price) THEN "COAL-DOMINATED"
    ELSE IF RGt(current_carbon_price, switching_price) THEN "GAS-DOMINATED"
    ELSE "TRANSITION ZONE"

MarginalTech(current_carbon_price, switching_price) ==
    IF RLt(current_carbon_price, switching_price) THEN "Coal"
    ELSE IF RGt(current_carbon_price, switching_price) THEN "Gas"
    ELSE "Coal/Gas (Indifferent)"

\* Mutation of DivRaises: every division by zero raises.
DivRaises_Always(x, y) == y.v = Zero

\* x / y raises only when both operands are plain Python numbers.
DivRaises(x, y) == y.v = Zero /\ Join(x, y) = "py"

interpret_switching_price(current_carbon_price, data) ==
    LET switching_price == data.switching_price_eur_ton
        cp == current_carbon_price.v
        sp == switching_price.v
        t == Join(current_carbon_price, switching_price)
        price_difference == Num(t, RSub(cp, sp))
        percentage_difference == Num(t, RMul(RDiv(price_difference.v, sp), Hundred))
    IN  IF DivRaises(price_difference, switching_price)
        THEN Raise("ZeroDivisionError", "float division by zero")
        ELSE Return([market_regime |-> Regime(cp, sp),
                     marginal_technology |-> MarginalTech(cp, sp),
                     carbon_price_vs_switching |-> price_difference,
                     percentage_above_below_switching |-> percentage_difference,
                     switching_price |-> switching_price,
                     current_carbon_price |-> current_carbon_price,
                     is_coal_cheaper |-> RLt(cp, sp),
                     is_gas_cheaper |-> RGt(cp, sp)])

----------------------------------------------------------------------------
(* Strings.  TLC treats a string as an atom, so every name the model sorts, *)
(* lower-cases or searches is spelled out once, character by character.     *)

CharsTable ==
    ("Scenario_Name" :> <<"S", "c", "e", "n", "a", "r", "i", "o", "_", "N", "a", "m", "e">>) @@
    ("Period_Type" :> <<"P", "e", "r", "i", "o", "d", "_", "T", "y", "p", "e">>) @@
    ("Season" :> <<"S", "e", "a", "s", "o", "n">>) @@
    ("Demand_MW" :> <<"D", "e", "m", "a", "n", "d", "_", "M", "W">>) @@
    ("Carbon_Price_EUR_ton" :> <<"C", "a", "r", "b", "o", "n", "_", "P", "r", "i", "c", "e", "_", "E", "U", "R", "_", "t", "o", "n">>) @@
    ("Wind_Avail_%" :> <<"W", "i", "n", "d", "_", "A", "v", "a", "i", "l", "_", "%">>) @@
    ("Solar_Avail_%" :> <<"S", "o", "l", "a", "r", "_", "A", "v", "a", "i", "l", "_", "%">>) @@
    ("Market_Price_EUR_MWh" :> <<"M", "a", "r", "k", "e", "t", "_", "P", "r", "i", "c", "e", "_", "E", "U", "R", "_", "M", "W", "h">>) @@
    ("Total_Emissions_tons" :> <<"T", "o", "t", "a", "l", "_", "E", "m", "i", "s", "s", "i", "o", "n", "s", "_", "t", "o", "n", "s">>) @@
    ("Marginal_Plant" :> <<"M", "a", "r", "g", "i", "n", "a", "l", "_", "P", "l", "a", "n", "t">>) @@
    ("Switching_Price_EUR_ton" :> <<"S", "w", "i", "t", "c", "h", "i", "n", "g", "_", "P", "r", "i", "c", "e", "_", "E", "U", "R", "_", "t", "o", "n">>) @@
    ("Market_Regime" :> <<"M", "a", "r", "k", "e", "t", "_", "R", "e", "g", "i", "m", "e">>) @@
    ("Carbon_Price_vs_Switching_EUR" :> <<"C", "a", "r", "b", "o", "n", "_", "P", "r", "i", "c", "e", "_", "v", "s", "_", "S", "w", "i", "t", "c", "h", "i", "n", "g", "_", "E", "U", "R">>) @@
    ("Carbon_Price_vs_Switching_%" :> <<"C", "a", "r", "b", "o", "n", "_", "P", "r", "i", "c", "e", "_", "v", "s", "_", "S", "w", "i", "t", "c", "h", "i", "n", "g", "_", "%">>) @@
    ("KPI_Metric" :> <<"K", "P", "I", "_", "M", "e", "t", "r", "i", "c">>) @@
    ("Value" :> <<"V", "a", "l", "u", "e">>) @@
    ("Data_Type" :> <<"D", "a", "t", "a", "_", "T", "y", "p", "e">>) @@
    ("Unit" :> <<"U", "n", "i", "t">>) @@
    ("Base" :> <<"B", "a", "s", "e">>) @@
    ("Peak" :> <<"P", "e", "a", "k">>) @@
    ("Low" :> <<"L", "o", "w">>) @@
    ("Price" :> <<"P", "r", "i", "c", "e">>) @@
    ("Cost" :> <<"C", "o", "s", "t">>) @@
    ("Revenue" :> <<"R", "e", "v", "e", "n", "u", "e">>) @@
    ("Surplus" :> <<"S", "u", "r", "p", "l", "u", "s">>) @@
    ("EUR" :> <<"E", "U", "R">>) @@
    ("Emissions" :> <<"E", "m", "i", "s", "s", "i", "o", "n", "s">>) @@
    ("Carbon" :> <<"C", "a", "r", "b", "o", "n">>) @@
    ("Intensity" :> <<"I", "n", "t", "e", "n", "s", "i", "t", "y">>) @@
    ("CO2" :> <<"C", "O", "2">>) @@
    ("Renewable" :> <<"R", "e", "n", "e", "w", "a", "b", "l", "e">>) @@
    ("Generation" :> <<"G", "e", "n", "e", "r", "a", "t", "i", "o", "n">>) @@
    ("Demand" :> <<"D", "e", "m", "a", "n", "d">>) @@
    ("Capacity" :> <<"C", "a", "p", "a", "c", "i", "t", "y">>) @@
    ("MW" :> <<"M", "W">>) @@
    ("Curtailment" :> <<"C", "u", "r", "t", "a", "i", "l", "m", "e", "n", "t">>) @@
    ("Avail" :> <<"A", "v", "a", "i", "l">>) @@
    ("eur" :> <<"e", "u", "r">>) @@
    ("price" :> <<"p", "r", "i", "c", "e">>) @@
    ("cost" :> <<"c", "o", "s", "t">>) @@
    ("revenue" :> <<"r", "e", "v", "e", "n", "u", "e">>) @@
    ("surplus" :> <<"s", "u", "r", "p", "l", "u", "s">>) @@
    ("mw" :> <<"m", "w">>) @@
    ("demand" :> <<"d", "e", "m", "a", "n", "d">>) @@
    ("generation" :> <<"g", "e", "n", "e", "r", "a", "t", "i", "o", "n">>) @@
    ("capacity" :> <<"c", "a", "p", "a", "c", "i", "t", "y">>) @@
    ("emissions" :> <<"e", "m", "i", "s", "s", "i", "o", "n", "s">>) @@
    ("intensity" :> <<"i", "n", "t", "e", "n", "s", "i", "t", "y">>) @@
    ("share" :> <<"s", "h", "a", "r", "e">>) @@
    ("avail" :> <<"a", "v", "a", "i", "l">>) @@
    ("curtailment" :> <<"c", "u", "r", "t", "a", "i", "l", "m", "e", "n", "t">>) @@
    ("carbon_price" :> <<"c", "a", "r", "b", "o", "n", "_", "p", "r", "i", "c", "e">>) @@
    ("carbon" :> <<"c", "a", "r", "b", "o", "n">>) @@
    ("co2" :> <<"c", "o", "2">>) @@
    ("renewable" :> <<"r", "e", "n", "e", "w", "a", "b", "l", "e">>) @@
    ("COST" :> <<"C", "O", "S", "T">>) @@
    ("Share" :> <<"S", "h", "a", "r", "e">>) @@
    ("Plant" :> <<"P", "l", "a", "n", "t">>) @@
    ("M" :> <<"M">>) @@
    ("W" :> <<"W">>) @@
    ("_" :> <<"_">>)

\* The strings spelled out.
Names == DOMAIN CharsTable

Chars(s) == CharsTable[s]

\* The characters in use, in code-point order (Python compares strings by code point).
Alphabet ==
    <<" ", "%", "-", "/", "0", "1", "2", "3", "4", "5", "6", "7", "8", "9", "A", "B", "C", "D", "E", "F", "G", "H", "I", "J", "K", "L", "M", "N", "O", "P", "Q", "R", "S", "T", "U", "V", "W", "X", "Y", "Z", "_", "a", "b", "c", "d", "e", "f", "g", "h", "i", "j", "k", "l", "m", "n", "o", "p", "q", "r", "s", "t", "u", "v", "w", "x", "y", "z">>

\* ord(c), up to the order-preserving renumbering of the characters in use
OrdTable ==
    [c \in {Alphabet[i] : i \in 1..Len(Alphabet)} |->
        CHOOSE i \in 1..Len(Alphabet) : Alphabet[i] = c]

Ord(c) == OrdTable[c]

UpperCase == <<"A", "B", "C", "D", "E", "F", "G", "H", "I", "J", "K", "L", "M", "N", "O", "P", "Q", "R", "S", "T", "U", "V", "W", "X", "Y", "Z">>

LowerCase == <<"a", "b", "c", "d", "e", "f", "g", "h", "i", "j", "k", "l", "m", "n", "o", "p", "q", "r", "s", "t", "u", "v", "w", "x", "y", "z">>

\* str.lower() on one character
LowerChar(c) ==
    IF \E i \in 1..Len(UpperCase) : UpperCase[i] = c
    THEN LowerCase[CHOOSE i \in 1..Len(UpperCase) : UpperCase[i] = c]
    ELSE c

Lower(cs) == [i \in 1..Len(cs) |-> LowerChar(cs[i])]

\* keyword in text
Contains(text, keyword) ==
    \E k \in 0..(Len(text) - Len(keyword)) :
        \A i \in 1..Len(keyword) : text[k + i] = keyword[i]

\* a < b for Python strings given as character sequences: decided by the
\* first position where they differ, else by the length.
CharsLt(a, b) ==
    LET common == IF Len(a) < Len(b) THEN Len(a) ELSE Len(b)
        differ == {i \in 1..common : a[i] # b[i]}
    IN  IF differ = {} THEN Len(a) < Len(b)
        ELSE \E i \in differ :
                /\ \A j \in differ : i <= j
                /\ Ord(a[i]) < Ord(b[i])

\* For every name, the names greater than it; evaluated once.
GreaterNames == [a \in Names |-> {b \in Names : CharsLt(Chars(a), Chars(b))}]

StrLt(a, b) == b \in GreaterNames[a]

----------------------------------------------------------------------------
(* Section 2: metric taxonomy *)

economic_keywords == <<"Price", "Cost", "Revenue", "Surplus", "EUR">>

environmental_keywords == <<"Emissions", "Carbon", "Intensity", "CO2", "Renewable">>

technical_keywords == <<"Generation", "Demand", "Capacity", "MW", "Curtailment", "Avail">>

\* Mutation of AnyKeyword: the keyword is searched as written, not lower-cased.
AnyKeyword_NoLower(keywords, metric_lower) ==
    \E i \in 1..Len(keywords) : Contains(metric_lower, Chars(keywords[i]))

\* any(keyword.lower() in metric_lower for keyword in keywords)
AnyKeyword(keywords, metric_lower) ==
    \E i \in 1..Len(keywords) : Contains(metric_lower, Lower(Chars(keywords[i])))

\* name is the metric name as a sequence of characters.
classify_metric_type(name) ==
    LET metric_lower == Lower(name)
    IN  IF AnyKeyword(economic_keywords, metric_lower) THEN "Economic"
        ELSE IF AnyKeyword(environmental_keywords, metric_lower) THEN "Environmental"
        ELSE IF AnyKeyword(technical_keywords, metric_lower) THEN "Technical"
        ELSE "Other"

\* The dictionary unit_mappings in insertion order.
unit_mappings ==
    <<<<"eur", "€">>, <<"price", "€/MWh">>, <<"cost", "€">>, <<"revenue", "€">>,
      <<"surplus", "€">>, <<"mw", "MW">>, <<"demand", "MW">>, <<"generation", "MW">>,
      <<"capacity", "MW">>, <<"emissions", "tons CO₂">>, <<"intensity", "t/MWh or g/kWh">>,
      <<"share", "%">>, <<"avail", "%">>, <<"curtailment", "MW">>,
      <<"carbon_price", "€/ton">>>>

\* Mutation of get_metric_unit: the last matching entry wins.
get_metric_unit_LastMatch(name) ==
    LET metric_lower == Lower(name)
        matches == {i \in 1..Len(unit_mappings) :
                       Contains(metric_lower, Chars(unit_mappings[i][1]))}
    IN  IF matches = {} THEN "-"
        ELSE unit_mappings[CHOOSE i \in matches : \A j \in matches : i >= j][2]

\* name is the metric name as a sequence of characters.
get_metric_unit(name) ==
    LET metric_lower == Lower(name)
        matches == {i \in 1..Len(unit_mappings) :
                       Contains(metric_lower, Chars(unit_mappings[i][1]))}
    IN  IF matches = {} THEN "-"
        ELSE unit_mappings[CHOOSE i \in matches : \A j \in matches : i <= j][2]

----------------------------------------------------------------------------
(* DataFrames.  A frame has its column labels in order, its index labels in *)
(* row order and one sequence of cells per column.  Frames live in a heap   *)
(* and are passed by reference, as Python objects are.                      *)

NumRows(f) == Len(f.index)

HasColumn(f, col) == \E i \in 1..Len(f.columns) : f.columns[i] = col

\* df[col] = values: replaces the cells of an existing column, else appends the column.
SetColumn(f, col, values) ==
    [f EXCEPT !.columns = IF HasColumn(f, col) THEN @ ELSE Append(@, col),
              !.data = (col :> values) @@ @]

\* A scalar assigned to a column is broadcast to every row.
Broadcast(f, v) == [i \in 1..NumRows(f) |-> v]

RangeIndex(n) == [i \in 1..n |-> i - 1]

\* A reference not in use.
Alloc(h) == CHOOSE r \in 1..(Cardinality(DOMAIN h) + 1) : r \notin DOMAIN h

\* Objects no variable of the caller refers to any more are collected;
\* roots is a sequence of references.
Collect(h, roots) == [r \in (DOMAIN h) \cap {roots[i] : i \in 1..Len(roots)} |-> h[r]]

\* DataFrame.copy(): a new object with the same content.
CopyFrame(h, ref) == [heap |-> (Alloc(h) :> h[ref]) @@ h, ref |-> Alloc(h)]

\* pd.melt(df, id_vars, value_vars, var_name, value_name): one block of rows
\* per value column, in the order of value_vars, each block in row order.
Melt(f, id_vars, value_vars, var_name, value_name) ==
    LET n == NumRows(f)
        total == n * Len(value_vars)
        src(p) == ((p - 1) % n) + 1
        var(p) == value_vars[((p - 1) \div n) + 1]
        cols == id_vars \o <<var_name, value_name>>
    IN  [columns |-> cols,
         index |-> RangeIndex(total),
         data |-> [c \in {cols[i] : i \in 1..Len(cols)} |->
                      [p \in 1..total |->
                          IF c = var_name THEN var(p)
                          ELSE IF c = value_name THEN f.data[var(p)][src(p)]
                          ELSE f.data[c][src(p)]]]]

\* Row i sorts strictly before row j on the string columns by[1], by[2].
RowLt(f, by, i, j) ==
    \/ StrLt(f.data[by[1]][i], f.data[by[1]][j])
    \/ /\ f.data[by[1]][i] = f.data[by[1]][j]
       /\ StrLt(f.data[by[2]][i], f.data[by[2]][j])

\* The rows that come before row i in the sorted frame: those that sort
\* strictly before it, and of the rows with equal keys the earlier ones
\* (the sort on several keys is stable).
RowsBefore(f, by, i) ==
    {j \in 1..NumRows(f) : RowLt(f, by, j, i) \/ (j < i /\ ~RowLt(f, by, i, j))}

\* The permutation that sorts f: SortedRows[p] is the row that comes p-th.
SortedRows(f, by) ==
    [p \in 1..NumRows(f) |->
        CHOOSE i \in 1..NumRows(f) : Cardinality(RowsBefore(f, by, i)) = p - 1]

\* Evaluates v once and hands the value to F.
Bind(v, F(_)) == CHOOSE y \in {F(x) : x \in {v}} : TRUE

\* The rows of f in the order perm, keeping their index labels.
TakeRows(f, perm) ==
    [f EXCEPT !.index = [p \in 1..Len(perm) |-> f.index[perm[p]]],
              !.data = [c \in DOMAIN f.data |-> [p \in 1..Len(perm) |-> f.data[c][perm[p]]]]]

\* DataFrame.sort_values(by)
SortValues(f, by) ==
    LET Take(perm) == TakeRows(f, perm)
    IN  Bind(SortedRows(f, by), Take)

\* DataFrame.reset_index(drop=True)
ResetIndex(f) == [f EXCEPT !.index = RangeIndex(NumRows(f))]

\* classify_metric_type and get_metric_unit of every name; evaluated once.
MetricTypeOf == [m \in Names |-> classify_metric_type(Chars(m))]

MetricUnitOf == [m \in Names |-> get_metric_unit(Chars(m))]

optional_ids ==
    <<"Period_Type", "Season", "Demand_MW", "Carbon_Price_EUR_ton",
      "Wind_Avail_%", "Solar_Avail_%">>

\* Mutation of IsIdColumn: only Scenario_Name is kept out of the metrics.
IsIdColumn_ScenarioOnly(f, col) == col = "Scenario_Name"

IsIdColumn(f, col) ==
    \/ col = "Scenario_Name"
    \/ HasColumn(f, col) /\ \E i \in 1..Len(optional_ids) : optional_ids[i] = col

\* Mutation of IdColumns: the identifier columns are taken in the order of
\* the columns of the frame.
IdColumns_InputOrder(f) ==
    LET identifier(col) == IsIdColumn(f, col)
    IN  SelectSeq(f.columns, identifier)

IdColumns(f) ==
    LET present(col) == HasColumn(f, col)
    IN  <<"Scenario_Name">> \o SelectSeq(optional_ids, present)

ValueColumns(f) ==
    LET metric(col) == ~IsIdColumn(f, col)
    IN  SelectSeq(f.columns, metric)

\* Mutation of ExportWorkingCopy: the export works on the caller's frame and
\* sorts it in place.
ExportWorkingCopy_InPlace(h, ref) ==
    [heap |-> [h EXCEPT ![ref] =
                  IF HasColumn(@, "Scenario_Name")
                  THEN SortValues(@, <<"Scenario_Name", "Scenario_Name">>)
                  ELSE @],
     ref |-> ref]

\* df = summary_df.copy(): the object the export works on.
ExportWorkingCopy(h, ref) == CopyFrame(h, ref)

\* pd.melt of the working copy on its identifier columns.
MeltSummary(df) == Melt(df, IdColumns(df), ValueColumns(df), "KPI_Metric", "Value")

\* bi_ready_df['Data_Type'] = ..., bi_ready_df['Unit'] = ...
AddMetadata(bi) ==
    LET kpi == bi.data["KPI_Metric"]
        typed == SetColumn(bi, "Data_Type", [p \in 1..NumRows(bi) |-> MetricTypeOf[kpi[p]]])
    IN  SetColumn(typed, "Unit", [p \in 1..NumRows(bi) |-> MetricUnitOf[kpi[p]]])

\* Mutation of SortExport: the export is sorted by Scenario_Name only.
SortExport_ScenarioOnly(bi) == ResetIndex(SortValues(bi, <<"Scenario_Name", "Scenario_Name">>))

\* bi_ready_df.sort_values(['Scenario_Name', 'KPI_Metric']).reset_index(drop=True)
SortExport(bi) == ResetIndex(SortValues(bi, <<"Scenario_Name", "KPI_Metric">>))

\* Returns the heap after the call and the outcome.  The frames the call
\* creates are new objects: the copy, the melted frame that receives the
\* metadata columns, and the sorted frame that is returned.
prepare_bi_export(h, summary_ref) ==
    LET Export(copied) ==
            LET Sorted(bi) ==
                    LET Finish(sorted) ==
                            LET h1 == (Alloc(copied.heap) :> bi) @@ copied.heap
                            IN  [heap |-> (Alloc(h1) :> sorted) @@ h1] @@ Return(Alloc(h1))
                    IN  Bind(SortExport(bi), Finish)
                Melted(melted) == Bind(AddMetadata(melted), Sorted)
            IN  IF ~HasColumn(copied.heap[copied.ref], "Scenario_Name")
                THEN [heap |-> copied.heap] @@ Raise("KeyError", "Scenario_Name")
                ELSE Bind(MeltSummary(copied.heap[copied.ref]), Melted)
    IN  Bind(ExportWorkingCopy(h, summary_ref), Export)

----------------------------------------------------------------------------
(* Section 3: switching analysis of the scenario summary *)

SummaryRegime(cp, switching_price) ==
    IF RLt(cp, switching_price) THEN "COAL-DOMINATED"
    ELSE IF RGt(cp, switching_price) THEN "GAS-DOMINATED"
    ELSE "TRANSITION"

\* Mutation of SwitchingFailure: the exception of the calculator is not caught.
SwitchingFailure_Propagates(h, summary_ref, calc) ==
    [heap |-> h, out |-> <<>>] @@ Raise(calc.raised, calc.message)

\* except Exception as e: print the warning and return the summary as it is.
SwitchingFailure(h, summary_ref, calc) ==
    [heap |-> h,
     out |-> <<<<"Warning: Could not calculate switching price", calc.message>>>>]
    @@ Return(summary_ref)

\* Returns the heap after the call, the outcome and what was printed.
add_switching_analysis_to_summary(h, summary_ref, plants) ==
    LET calc == calculate_switching_price(plants, default_params.coal_efficiency,
                    default_params.gas_efficiency, default_params.coal_emission_factor,
                    default_params.gas_emission_factor)
        switching_price == calc.value[1].switching_price_eur_ton.v
        f0 == h[summary_ref]
        f1 == SetColumn(f0, "Switching_Price_EUR_ton", Broadcast(f0, switching_price))
        f2 == SetColumn(f1, "Market_Regime",
                  [i \in 1..NumRows(f1) |->
                      SummaryRegime(f1.data["Carbon_Price_EUR_ton"][i], switching_price)])
        f3 == SetColumn(f2, "Carbon_Price_vs_Switching_EUR",
                  [i \in 1..NumRows(f2) |->
                      RSub(f2.data["Carbon_Price_EUR_ton"][i], switching_price)])
        f4 == SetColumn(f3, "Carbon_Price_vs_Switching_%",
                  [i \in 1..NumRows(f3) |->
                      RMul(RDiv(f3.data["Carbon_Price_vs_Switching_EUR"][i], switching_price),
                           Hundred)])
    IN  IF calc.raised # ""
        THEN SwitchingFailure(h, summary_ref, calc)
        ELSE IF ~HasColumn(f1, "Carbon_Price_EUR_ton")
        THEN [heap |-> [h EXCEPT ![summary_ref] = f1], out |-> <<>>]
             @@ Raise("KeyError", "Carbon_Price_EUR_ton")
        ELSE [heap |-> [h EXCEPT ![summary_ref] = f4], out |-> <<>>] @@ Return(summary_ref)

----------------------------------------------------------------------------
(* Inputs *)

Technologies == {"Coal", "Gas", "Gas Peaker", "Wind"}

FuelCosts == {Q(25, 1), Q(45, 1)}

Plants == [Technology : Technologies, Fuel_Cost_EUR_MWh : FuelCosts]

Rosters == UNION {[1..n -> Plants] : n \in 0..MaxPlants}

\* The defaults, and choices that make the emission-rate difference positive,
\* zero and negative, the switching price zero and negative, and an
\* efficiency zero.
ParamChoices ==
    {default_params,
     Param(Q(55, 100), Q(38, 100), Q(34, 100), Q(20, 100)),
     Param(Q(38, 100), Q(38, 100), Q(34, 100), Q(20, 100)),
     Param(Q(38, 100), Q(55, 100), Q(20, 100), Q(34, 100)),
     Param(Q(38, 100), Q(38, 100), Q(34, 100), Q(34, 100)),
     Param(Zero, Q(55, 100), Q(34, 100), Q(20, 100)),
     Param(Q(38, 100), Zero, Q(34, 100), Q(20, 100))}

CarbonPrices == {Q(0, 1), Q(30, 1), Q(50, 1), Q(70, 1)}

NumTypes == {"py", "np"}

\* Dictionaries a caller builds by hand instead of taking them from the calculator.
HandBuiltData == {[switching_price_eur_ton |-> Num(t, v)] :
                      t \in NumTypes, v \in {Q(-30, 1), Zero, Q(30, 1)}}

None == <<>>

\* test_plants of validate_switching_price_calculation
test_plants ==
    <<[Technology |-> "Coal", Fuel_Cost_EUR_MWh |-> Q(25, 1)],
      [Technology |-> "Gas", Fuel_Cost_EUR_MWh |-> Q(45, 1)]>>

\* Rosters the summary is enriched with: the test roster, one with a negative
\* and one with a zero switching price, and rosters without coal or gas.
SummaryRosters ==
    {test_plants,
     <<[Technology |-> "Coal", Fuel_Cost_EUR_MWh |-> Q(45, 1)],
       [Technology |-> "Gas", Fuel_Cost_EUR_MWh |-> Q(25, 1)]>>,
     <<[Technology |-> "Coal", Fuel_Cost_EUR_MWh |-> Q(38, 1)],
       [Technology |-> "Gas Peaker", Fuel_Cost_EUR_MWh |-> Q(55, 1)]>>,
     <<[Technology |-> "Coal", Fuel_Cost_EUR_MWh |-> Q(25, 1)]>>,
     <<[Technology |-> "Gas Peaker", Fuel_Cost_EUR_MWh |-> Q(45, 1)]>>,
     <<>>}

SummaryRow(name, season, cp, price, plant) ==
    [Scenario_Name |-> name, Season |-> season, Carbon_Price_EUR_ton |-> cp,
     Market_Price_EUR_MWh |-> price, Total_Emissions_tons |-> Q(100, 1),
     Marginal_Plant |-> plant]

SummaryRows ==
    {SummaryRow("Peak", "Winter", Q(50, 1), Q(60, 1), "Gas_1"),
     SummaryRow("Base", "Summer", Q(30, 1), Q(40, 1), "Coal_1"),
     SummaryRow("Base", "Winter", Q(3350, 111), Q(45, 1), "Coal_1"),
     SummaryRow("Low", "Summer", Zero, Q(40, 1), "Wind_1")}

\* Column layouts of the summary: with and without the carbon price, in
\* different orders (metrics also against the alphabet), with a text metric,
\* one with identifier columns only and one without Scenario_Name.
SummaryLayouts ==
    {<<"Scenario_Name", "Carbon_Price_EUR_ton", "Market_Price_EUR_MWh", "Total_Emissions_tons">>,
     <<"Total_Emissions_tons", "Scenario_Name", "Market_Price_EUR_MWh">>,
     <<"Scenario_Name", "Market_Price_EUR_MWh">>,
     <<"Season", "Scenario_Name", "Carbon_Price_EUR_ton">>,
     <<"Marginal_Plant", "Carbon_Price_EUR_ton", "Scenario_Name", "Season">>,
     <<"Carbon_Price_EUR_ton", "Market_Price_EUR_MWh">>}

MakeFrame(layout, rows) ==
    [columns |-> layout,
     index |-> RangeIndex(Len(rows)),
     data |-> [c \in {layout[i] : i \in 1..Len(layout)} |->
                  [i \in 1..Len(rows) |-> rows[i][c]]]]

SummaryFrames ==
    {MakeFrame(layout, rows) :
        layout \in SummaryLayouts,
        rows \in UNION {[1..n -> SummaryRows] : n \in 0..MaxRows}}

\* Words metric names are made of: the keywords in several spellings, words
\* without a keyword, single letters that form a keyword only together, and
\* column names of the scenario summary.
Words ==
    {"Price", "COST", "Revenue", "Surplus", "EUR", "Emissions", "Carbon",
     "Intensity", "co2", "Renewable", "Generation", "demand", "Capacity", "M", "W",
     "Curtailment", "Avail", "Share", "Plant", "_", "carbon_price",
     "Market_Price_EUR_MWh", "Total_Emissions_tons"}

\* The characters of the words ws, one after the other.
RECURSIVE Spell(_)
Spell(ws) == IF ws = <<>> THEN <<>> ELSE Chars(Head(ws)) \o Spell(Tail(ws))

MetricNames == {Spell(ws) : ws \in UNION {[1..n -> Words] : n \in 0..MaxWords}}

----------------------------------------------------------------------------
(* Section 4: merit-order dispatch.  The engine (power_market_analyzer) is  *)
(* called by the dashboard; its contract is the one of the design document, *)
(* sections 4.1 and 4.2.                                                     *)

\* Mutation of calculate_srmc: the carbon cost is subtracted.
calculate_srmc_CarbonSubtracted(plant, carbon_price) ==
    RAdd(RSub(RDiv(plant.Fuel_Cost_EUR_MWh, plant.Efficiency),
              RMul(carbon_price, RDiv(plant.Emission_Factor, plant.Efficiency))),
         plant.Variable_Cost_EUR_MWh)

\* SRMC = fuel_cost / efficiency + carbon_price * (emission_factor / efficiency)
\*        + variable_operating_cost
calculate_srmc(plant, carbon_price) ==
    RAdd(RAdd(RDiv(plant.Fuel_Cost_EUR_MWh, plant.Efficiency),
              RMul(carbon_price, RDiv(plant.Emission_Factor, plant.Efficiency))),
         plant.Variable_Cost_EUR_MWh)

\* Nameplate capacity times the availability of the scenario for wind and
\* solar, the nameplate capacity for every other technology.
available_capacity(plant, scenario) ==
    IF plant.Technology = "Wind"
    THEN RMul(plant.Capacity_MW, RDiv(scenario.Wind_Availability_Percent, Hundred))
    ELSE IF plant.Technology = "Solar"
    THEN RMul(plant.Capacity_MW, RDiv(scenario.Solar_Availability_Percent, Hundred))
    ELSE plant.Capacity_MW

\* One dispatch line per plant, in roster order, not yet dispatched.
DispatchLines(plants, scenario) ==
    [i \in 1..Len(plants) |->
        [Plant_Name |-> plants[i].Plant_Name,
         Technology |-> plants[i].Technology,
         SRMC_EUR_MWh |-> calculate_srmc(plants[i], scenario.Carbon_Price_EUR_ton),
         Available_Capacity_MW |-> available_capacity(plants[i], scenario)]]

\* The lines that come before line i in the merit order: the cheaper ones
\* and, at equal SRMC, the ones earlier in the roster.
MeritBefore(lines, i) ==
    {j \in 1..Len(lines) :
        \/ RLt(lines[j].SRMC_EUR_MWh, lines[i].SRMC_EUR_MWh)
        \/ lines[j].SRMC_EUR_MWh = lines[i].SRMC_EUR_MWh /\ j < i}

\* The lines in ascending order of SRMC.
MeritOrder(lines) ==
    [p \in 1..Len(lines) |->
        lines[CHOOSE i \in 1..Len(lines) : Cardinality(MeritBefore(lines, i)) = p - 1]]

\* The cumulative available capacity along the merit order.
Cumulative(lines) ==
    [p \in 1..Len(lines) |-> SumSeq([q \in 1..p |-> lines[q].Available_Capacity_MW])]

\* Mutation of Reaching: the cumulative capacity has to exceed the demand.
Reaching_Strict(cum, demand) == {p \in 1..Len(cum) : RLt(demand, cum[p])}

\* The positions whose cumulative available capacity reaches or exceeds the demand.
Reaching(cum, demand) == {p \in 1..Len(cum) : RLe(demand, cum[p])}

\* Mutation of DispatchedCapacity: the marginal plant runs at its full
\* available capacity.
DispatchedCapacity_MarginalFull(lines, cum, demand, marginal, demand_met, p) ==
    IF ~demand_met \/ p <= marginal THEN lines[p].Available_Capacity_MW ELSE Zero

\* Full available capacity before the marginal plant, the residual demand
\* for the marginal plant, nothing after it; in a shortage every plant runs
\* at its full available capacity.
DispatchedCapacity(lines, cum, demand, marginal, demand_met, p) ==
    IF ~demand_met \/ p < marginal THEN lines[p].Available_Capacity_MW
    ELSE IF p = marginal
    THEN RSub(demand, IF p = 1 THEN Zero ELSE cum[p - 1])
    ELSE Zero

\* The dispatch result of a scenario, from the lines in merit order and
\* their cumulative capacity.
Clear(lines, cum, scenario) ==
    LET demand == scenario.Demand_MW
        reaching == Reaching(cum, demand)
        demand_met == reaching # {}
        marginal == IF demand_met
                    THEN CHOOSE p \in reaching : \A q \in reaching : p <= q
                    ELSE Len(lines)
    IN  [demand_mw |-> demand,
         demand_met |-> demand_met,
         market_price_eur_mwh |-> lines[marginal].SRMC_EUR_MWh,
         marginal_plant_name |-> lines[marginal].Plant_Name,
         marginal_technology |-> lines[marginal].Technology,
         dispatch_df |->
            [p \in 1..Len(lines) |->
                [Is_Dispatched |-> ~demand_met \/ p <= marginal,
                 Dispatched_Capacity_MW |->
                    DispatchedCapacity(lines, cum, demand, marginal, demand_met, p)]
                @@ lines[p]]]

\* Merit-order clearing of one scenario; the roster is not empty.
clear_market(plants, scenario) ==
    LET Sorted(lines) ==
            LET With(cum) == Clear(lines, cum, scenario)
            IN  Bind(Cumulative(lines), With)
    IN  Bind(MeritOrder(DispatchLines(plants, scenario)), Sorted)

\* One dispatch result per scenario, in the order of the scenario table;
\* dispatching an empty roster is a fatal error.
run_all_scenarios(plants, scenarios) ==
    IF plants = <<>> /\ scenarios # <<>>
    THEN Raise("ValueError", "No plants to dispatch")
    ELSE Return([i \in 1..Len(scenarios) |-> clear_market(plants, scenarios[i])])

\* The plants the dispatch is run with: wind with a high variable cost, so
\* that a plant without available capacity can be anywhere in the merit
\* order, coal and gas.  Coal is cheaper than gas below a carbon price of 20
\* and dearer above; at 20 all three cost the same.
DispatchPlants ==
    {[Plant_Name |-> "Wind_1", Technology |-> "Wind", Capacity_MW |-> Q(100, 1),
      Fuel_Cost_EUR_MWh |-> Zero, Efficiency |-> Q(1, 1), Emission_Factor |-> Zero,
      Variable_Cost_EUR_MWh |-> Q(70, 1)],
     [Plant_Name |-> "Coal_1", Technology |-> "Coal", Capacity_MW |-> Q(100, 1),
      Fuel_Cost_EUR_MWh |-> Q(20, 1), Efficiency |-> Q(2, 5), Emission_Factor |-> Q(34, 100),
      Variable_Cost_EUR_MWh |-> Q(3, 1)],
     [Plant_Name |-> "Gas_1", Technology |-> "Gas", Capacity_MW |-> Q(100, 1),
      Fuel_Cost_EUR_MWh |-> Q(30, 1), Efficiency |-> Q(1, 2), Emission_Factor |-> Q(20, 100),
      Variable_Cost_EUR_MWh |-> Q(2, 1)]}

DispatchRosters == UNION {[1..n -> DispatchPlants] : n \in 0..MaxPlants}

\* Demand from nothing to more than the roster can supply, carbon prices
\* below, at and above the price at which coal and gas change places, wind
\* becalmed and at half capacity.
Scenarios ==
    [Demand_MW : {Zero, Q(100, 1), Q(150, 1), Q(250, 1)},
     Carbon_Price_EUR_ton : {Zero, Q(20, 1), Q(50, 1)},
     Wind_Availability_Percent : {Zero, Q(50, 1)},
     Solar_Availability_Percent : {Hundred}]

\* a < b in an arbitrary fixed order of the scenarios
ScenarioBefore(a, b) ==
    \/ RLt(a.Demand_MW, b.Demand_MW)
    \/ /\ a.Demand_MW = b.Demand_MW
       /\ \/ RLt(a.Carbon_Price_EUR_ton, b.Carbon_Price_EUR_ton)
          \/ /\ a.Carbon_Price_EUR_ton = b.Carbon_Price_EUR_ton
             /\ RLt(a.Wind_Availability_Percent, b.Wind_Availability_Percent)

\* Scenario tables without a scenario twice, one table for each choice of scenarios.
ScenarioTables ==
    UNION {{t \in [1..n -> Scenarios] : \A i \in 1..(n - 1) : ScenarioBefore(t[i], t[i + 1])} :
              n \in 0..MaxScenarios}

----------------------------------------------------------------------------
(* The calls *)

NoCall == [op |-> "", raised |-> "", message |-> "", value |-> <<>>]

\* Any roster with any parameter choice.
InitCalculator ==
    /\ plants_df \in Rosters
    /\ params \in ParamChoices
    /\ switching_data = None
    /\ heap = <<>>
    /\ summary_df = None
    /\ metric_name = None
    /\ scenarios_df = None

\* The test roster, and a switching-price dictionary the caller may hold already.
InitInterpreter ==
    /\ plants_df = test_plants
    /\ params = default_params
    /\ switching_data \in {<<d>> : d \in HandBuiltData}
    /\ heap = <<>>
    /\ summary_df = None
    /\ metric_name = None
    /\ scenarios_df = None

\* A scenario summary to be enriched and exported.
InitSummary ==
    /\ plants_df \in SummaryRosters
    /\ params = default_params
    /\ switching_data = None
    /\ \E f \in SummaryFrames : heap = <<f>>
    /\ summary_df = <<1>>
    /\ metric_name = None
    /\ scenarios_df = None

Init ==
    /\ InitCalculator \/ InitInterpreter
    /\ ret = NoCall
    /\ stdout = <<>>

CallCalculateSwitchingPrice ==
    LET r == calculate_switching_price(plants_df, params.coal_efficiency,
                 params.gas_efficiency, params.coal_emission_factor,
                 params.gas_emission_factor)
    IN  /\ ret' = [op |-> "calculate_switching_price"] @@ r
        /\ switching_data' = IF r.raised = "" THEN r.value ELSE switching_data
        /\ stdout' = <<>>
        /\ heap' = Collect(heap, summary_df)
        /\ UNCHANGED <<plants_df, params, summary_df, metric_name, scenarios_df>>

\* The carbon prices tried, among them the switching price itself.
CarbonPriceInputs(data) ==
    {Num(t, v) : t \in NumTypes, v \in CarbonPrices \cup {data.switching_price_eur_ton.v}}

CallInterpretSwitchingPrice ==
    /\ switching_data # None
    /\ \E cp \in CarbonPriceInputs(switching_data[1]) :
        LET r == interpret_switching_price(cp, switching_data[1])
        IN  ret' = [op |-> "interpret_switching_price", cp |-> cp,
                    data |-> switching_data[1]] @@ r
    /\ stdout' = <<>>
    /\ heap' = Collect(heap, summary_df)
    /\ UNCHANGED <<plants_df, params, summary_df, switching_data, metric_name, scenarios_df>>

\* What validate_switching_price_calculation prints, for a result of the test roster.
ValidationOutput(result) ==
    <<<<"Formula Validated", IF result.formula_validation THEN "YES" ELSE "NO">>,
      IF /\ RLe(Q(30, 1), result.switching_price_eur_ton.v)
         /\ RLe(result.switching_price_eur_ton.v, Q(80, 1))
      THEN <<"Switching price is in expected range (30-80/ton)">>
      ELSE <<"Warning: Switching price outside typical range">>>>
    \o [i \in 1..3 |->
          LET cp == Num("py", Q(<<30, 50, 70>>[i], 1))
          IN  <<"Carbon Price", cp.v,
                interpret_switching_price(cp, result).value[1].market_regime>>]

CallValidateSwitchingPriceCalculation ==
    LET r == calculate_switching_price(test_plants, default_params.coal_efficiency,
                 default_params.gas_efficiency, default_params.coal_emission_factor,
                 default_params.gas_emission_factor)
    IN  /\ ret' = [op |-> "validate_switching_price_calculation"] @@ r
        /\ stdout' = IF r.raised = "" THEN ValidationOutput(r.value[1]) ELSE <<>>
        /\ heap' = Collect(heap, summary_df)
    /\ UNCHANGED <<plants_df, params, summary_df, switching_data, metric_name, scenarios_df>>

\* summary_df = add_switching_analysis_to_summary(summary_df, plants)
CallAddSwitchingAnalysisToSummary ==
    /\ summary_df # None
    /\ \E r \in {add_switching_analysis_to_summary(heap, summary_df[1], plants_df)} :
           /\ heap' = Collect(r.heap, summary_df \o r.value)
           /\ ret' = [op |-> "add_switching_analysis_to_summary",
                      before |-> heap[summary_df[1]],
                      raised |-> r.raised, message |-> r.message, value |-> r.value]
           /\ stdout' = r.out
    /\ UNCHANGED <<plants_df, params, summary_df, switching_data, metric_name, scenarios_df>>

\* bi_ready_df = prepare_bi_export(summary_df)
CallPrepareBiExport ==
    /\ summary_df # None
    /\ \E r \in {prepare_bi_export(heap, summary_df[1])} :
           /\ heap' = Collect(r.heap, summary_df \o r.value)
           /\ ret' = [op |-> "prepare_bi_export",
                      before |-> heap[summary_df[1]],
                      raised |-> r.raised, message |-> r.message, value |-> r.value]
    /\ stdout' = <<>>
    /\ UNCHANGED <<plants_df, params, summary_df, switching_data, metric_name, scenarios_df>>

\* The switching-price calculator and the regime interpreter.
Next ==
    \/ CallCalculateSwitchingPrice
    \/ CallInterpretSwitchingPrice
    \/ CallValidateSwitchingPriceCalculation

Spec == Init /\ [][Next]_vars

\* The summary pipeline: enrichment with the switching analysis, then export.
SummaryInit ==
    /\ InitSummary
    /\ ret = NoCall
    /\ stdout = <<>>

SummaryNext ==
    \/ CallAddSwitchingAnalysisToSummary
    \/ CallPrepareBiExport

SummarySpec == SummaryInit /\ [][SummaryNext]_vars

\* The sequences that hold every element of S once.
Orders(S) ==
    {o \in [1..Cardinality(S) -> S] : \A i, j \in 1..Cardinality(S) : o[i] = o[j] => i = j}

\* The columns the export adds to the identifier columns.
LongColumns == {"KPI_Metric", "Value", "Data_Type", "Unit"}

\* The wide table of a long table: one row per scenario in the order
\* scenarios, the identifier columns and one column per KPI_Metric in the
\* order columns.
WideOf(long, columns, scenarios) ==
    LET row(s, m) == CHOOSE p \in 1..NumRows(long) :
                        /\ long.data["Scenario_Name"][p] = s
                        /\ m \in {"", long.data["KPI_Metric"][p]}
        cell(c, s) == IF HasColumn(long, c) THEN long.data[c][row(s, "")]
                      ELSE long.data["Value"][row(s, c)]
    IN  [columns |-> columns,
         index |-> RangeIndex(Len(scenarios)),
         data |-> [c \in {columns[i] : i \in 1..Len(columns)} |->
                      [i \in 1..Len(scenarios) |-> cell(c, scenarios[i])]]]

\* The caller rebuilds a wide summary from the long table returned for the
\* summary it started with, with the columns and the scenarios in an order
\* of its choice, and makes it its summary.
ReconstructWide ==
    /\ ret.op = "prepare_bi_export" /\ ret.raised = ""
    /\ summary_df = <<1>>
    /\ LET long == heap[ret.value[1]]
           identifiers == {long.columns[i] : i \in 1..Len(long.columns)} \ LongColumns
           metrics == {long.data["KPI_Metric"][p] : p \in 1..NumRows(long)}
           names == {long.data["Scenario_Name"][p] : p \in 1..NumRows(long)}
           new == Alloc(heap)
       IN  \E columns \in Orders(identifiers \cup metrics), scenarios \in Orders(names) :
              /\ heap' = Collect((new :> WideOf(long, columns, scenarios)) @@ heap,
                                 <<new>> \o ret.value)
              /\ summary_df' = <<new>>
    /\ UNCHANGED <<plants_df, params, switching_data, metric_name, scenarios_df, ret, stdout>>

\* Summaries with a Scenario_Name column and no scenario twice.
InitRoundTrip ==
    /\ plants_df = test_plants
    /\ params = default_params
    /\ switching_data = None
    /\ \E f \in SummaryFrames :
          /\ HasColumn(f, "Scenario_Name")
          /\ \A i, j \in 1..NumRows(f) :
                f.data["Scenario_Name"][i] = f.data["Scenario_Name"][j] => i = j
          /\ heap = <<f>>
    /\ summary_df = <<1>>
    /\ metric_name = None
    /\ scenarios_df = None

\* The export, and the export of what is rebuilt from it.
RoundTripInit ==
    /\ InitRoundTrip
    /\ ret = NoCall
    /\ stdout = <<>>

RoundTripNext ==
    \/ CallPrepareBiExport
    \/ ReconstructWide

RoundTripSpec == RoundTripInit /\ [][RoundTripNext]_vars

\* A roster and a scenario table to dispatch.
InitDispatch ==
    /\ plants_df \in DispatchRosters
    /\ params = default_params
    /\ switching_data = None
    /\ heap = <<>>
    /\ summary_df = None
    /\ metric_name = None
    /\ scenarios_df \in {<<t>> : t \in ScenarioTables}

\* all_results = pma.run_all_scenarios(plants, scenarios)
CallRunAllScenarios ==
    /\ scenarios_df # None
    /\ \E r \in {run_all_scenarios(plants_df, scenarios_df[1])} :
           ret' = [op |-> "run_all_scenarios"] @@ r
    /\ stdout' = <<>>
    /\ heap' = Collect(heap, summary_df)
    /\ UNCHANGED <<plants_df, params, summary_df, switching_data, metric_name, scenarios_df>>

\* The dispatch of a scenario table.
DispatchInit ==
    /\ InitDispatch
    /\ ret = NoCall
    /\ stdout = <<>>

DispatchNext == CallRunAllScenarios

DispatchSpec == DispatchInit /\ [][DispatchNext]_vars

\* A metric name to classify.
InitTaxonomy ==
    /\ plants_df = <<>>
    /\ params = default_params
    /\ switching_data = None
    /\ heap = <<>>
    /\ summary_df = None
    /\ metric_name \in {<<name>> : name \in MetricNames}
    /\ scenarios_df = None

CallClassifyMetricType ==
    /\ metric_name # None
    /\ ret' = [op |-> "classify_metric_type"] @@ Return(classify_metric_type(metric_name[1]))
    /\ stdout' = <<>>
    /\ heap' = Collect(heap, summary_df)
    /\ UNCHANGED <<plants_df, params, summary_df, switching_data, metric_name, scenarios_df>>

CallGetMetricUnit ==
    /\ metric_name # None
    /\ ret' = [op |-> "get_metric_unit"] @@ Return(get_metric_unit(metric_name[1]))
    /\ stdout' = <<>>
    /\ heap' = Collect(heap, summary_df)
    /\ UNCHANGED <<plants_df, params, summary_df, switching_data, metric_name, scenarios_df>>

\* The metric taxonomy on its own.
TaxonomyInit ==
    /\ InitTaxonomy
    /\ ret = NoCall
    /\ stdout = <<>>

TaxonomyNext ==
    \/ CallClassifyMetricType
    \/ CallGetMetricUnit

TaxonomySpec == TaxonomyInit /\ [][TaxonomyNext]_vars

----------------------------------------------------------------------------
(* Properties of the switching-price calculator *)

Calculated == ret.op = "calculate_switching_price"

Returned == ret.raised = ""

CoalIndices == {i \in DOMAIN plants_df : plants_df[i].Technology = "Coal"}

GasIndices == {i \in DOMAIN plants_df : plants_df[i].Technology \in {"Gas", "Gas Peaker"}}

RECURSIVE FuelCostSum(_)
FuelCostSum(S) ==
    IF S = {} THEN Zero
    ELSE LET i == CHOOSE j \in S : TRUE
         IN  RAdd(plants_df[i].Fuel_Cost_EUR_MWh, FuelCostSum(S \ {i}))

MeanFuelCost(S) == RDiv(FuelCostSum(S), Q(Cardinality(S), 1))

EfficienciesNonZero == params.coal_efficiency # Zero /\ params.gas_efficiency # Zero

EmissionRateDifference ==
    RSub(RDiv(params.coal_emission_factor, params.coal_efficiency),
         RDiv(params.gas_emission_factor, params.gas_efficiency))

ExpectedSwitchingPrice ==
    RDiv(RSub(RDiv(MeanFuelCost(GasIndices), params.gas_efficiency),
              RDiv(MeanFuelCost(CoalIndices), params.coal_efficiency)),
         EmissionRateDifference)

\* C1: with a coal plant and a gas-family plant in the roster and a positive
\* emission-rate difference, the call returns
\* (G/gas_efficiency - C/coal_efficiency) / (cef/coal_efficiency - gef/gas_efficiency),
\* C and G the mean fuel costs of the Coal and of the Gas + Gas Peaker plants;
\* no other plant enters the result.
C1_SwitchingPriceFormula ==
    (/\ Calculated
     /\ CoalIndices # {} /\ GasIndices # {}
     /\ EfficienciesNonZero
     /\ RGt(EmissionRateDifference, Zero))
    => /\ Returned
       /\ ret.value[1].switching_price_eur_ton.v = ExpectedSwitchingPrice

\* A result for a roster whose Gas and Gas Peaker plants differ in fuel cost.
C1_Witness ==
    /\ Calculated /\ Returned
    /\ \E i, j \in GasIndices :
          /\ plants_df[i].Technology = "Gas" /\ plants_df[j].Technology = "Gas Peaker"
          /\ plants_df[i].Fuel_Cost_EUR_MWh # plants_df[j].Fuel_Cost_EUR_MWh
    /\ ret.value[1].switching_price_eur_ton.v # Zero

\* C2: without a Coal plant or without a Gas / Gas Peaker plant the call
\* raises and returns nothing; no returned result comes from an empty partition.
C2_EmptyPartitionFails ==
    Calculated =>
       /\ (CoalIndices = {} \/ GasIndices = {}) =>
             /\ ret.raised = "ValueError"
             /\ ret.message \in {"No coal plants found in database",
                                 "No gas plants found in database"}
             /\ ret.value = <<>>
       /\ Returned => (CoalIndices # {} /\ GasIndices # {})

\* A roster with coal but no gas-family plant that made the call raise.
C2_Witness ==
    /\ Calculated
    /\ CoalIndices # {} /\ GasIndices = {} /\ Len(plants_df) = MaxPlants
    /\ ret.raised = "ValueError" /\ ret.message = "No gas plants found in database"

\* C3: a non-positive emission-rate difference makes the call raise; every
\* returned result has the gas emission rate strictly below the coal one and
\* a finite switching price.
C3_NonPositiveDenominatorFails ==
    Calculated =>
       /\ (EfficienciesNonZero /\ RLe(EmissionRateDifference, Zero)) => ~Returned
       /\ Returned =>
             /\ RLt(ret.value[1].gas_emission_rate_t_mwh.v, ret.value[1].coal_emission_rate_t_mwh.v)
             /\ IsFinite(ret.value[1].switching_price_eur_ton.v)

\* Equal emission rates with both partitions present: the denominator check raised.
C3_Witness ==
    /\ Calculated
    /\ CoalIndices # {} /\ GasIndices # {}
    /\ EfficienciesNonZero /\ EmissionRateDifference = Zero
    /\ ret.raised = "ValueError"
    /\ ret.message = "Invalid emission factors: Gas must have lower emissions than coal"

\* C4: in every returned result the coal and the gas cost at the switching
\* price differ by less than 0.01 and formula_validation is true.
C4_CostsAgreeAtSwitchingPrice ==
    (Calculated /\ Returned) =>
       /\ RLt(RAbs(RSub(ret.value[1].coal_srmc_at_switching_eur_mwh.v,
                        ret.value[1].gas_srmc_at_switching_eur_mwh.v)), Q(1, 100))
       /\ ret.value[1].formula_validation = TRUE

\* A returned result with a non-zero switching price and unequal generation costs.
C4_Witness ==
    /\ Calculated /\ Returned
    /\ ret.value[1].switching_price_eur_ton.v # Zero
    /\ ret.value[1].coal_generation_cost_eur_mwh.v # ret.value[1].gas_generation_cost_eur_mwh.v
    /\ ret.value[1].formula_validation

TestRosterCalculated ==
    \/ Calculated /\ plants_df = test_plants /\ params = default_params
    \/ ret.op = "validate_switching_price_calculation"

TestRosterValue ==
    RDiv(RSub(RDiv(Q(45, 1), Q(55, 100)), RDiv(Q(25, 1), Q(38, 100))),
         RSub(RDiv(Q(34, 100), Q(38, 100)), RDiv(Q(20, 100), Q(55, 100))))

\* C5 as stated: for one coal plant at 25 and one gas plant at 45 with the
\* default efficiencies and emission factors the switching price is
\* ((45/0.55) - (25/0.38)) / ((0.34/0.38) - (0.20/0.55)) and lies in [47.5, 48].
C5_Original ==
    TestRosterCalculated =>
       /\ Returned
       /\ ret.value[1].switching_price_eur_ton.v = TestRosterValue
       /\ RLe(Q(475, 10), ret.value[1].switching_price_eur_ton.v)
       /\ RLe(ret.value[1].switching_price_eur_ton.v, Q(48, 1))

\* C5 amended: the switching price of that roster is the value of the
\* expression, 3350/111 = 30.18..., which lies between 30 and 30.5 EUR/ton.
C5_TestRosterSwitchingPrice ==
    TestRosterCalculated =>
       /\ Returned
       /\ ret.value[1].switching_price_eur_ton.v = TestRosterValue
       /\ ret.value[1].switching_price_eur_ton.v = Q(3350, 111)
       /\ RLe(Q(30, 1), ret.value[1].switching_price_eur_ton.v)
       /\ RLe(ret.value[1].switching_price_eur_ton.v, Q(305, 10))

\* The calculator was run on the test roster with the default parameters.
C5_Witness ==
    /\ Calculated /\ plants_df = test_plants /\ params = default_params
    /\ Returned

----------------------------------------------------------------------------
(* Properties of the regime interpreter *)

Interpreted == ret.op = "interpret_switching_price"

\* C6: a returned interpretation names exactly one of three regimes: coal
\* dominated iff carbon price < switching price, gas dominated iff >, the
\* transition regime iff equal; is_coal_cheaper and is_gas_cheaper hold exactly
\* in the first two regimes and never together.
C6_RegimeClassification ==
    (Interpreted /\ Returned) =>
       LET cp == ret.cp.v
           sp == ret.data.switching_price_eur_ton.v
           regime == ret.value[1].market_regime
       IN  /\ regime \in {"COAL-DOMINATED", "GAS-DOMINATED", "TRANSITION ZONE"}
           /\ (regime = "COAL-DOMINATED") <=> RLt(cp, sp)
           /\ (regime = "GAS-DOMINATED") <=> RLt(sp, cp)
           /\ (regime = "TRANSITION ZONE") <=> (cp = sp)
           /\ ret.value[1].is_coal_cheaper <=> (regime = "COAL-DOMINATED")
           /\ ret.value[1].is_gas_cheaper <=> (regime = "GAS-DOMINATED")
           /\ ~(ret.value[1].is_coal_cheaper /\ ret.value[1].is_gas_cheaper)

\* The carbon price equals a switching price that the calculator returned.
C6_Witness ==
    /\ Interpreted /\ Returned
    /\ ret.data.switching_price_eur_ton.t = "np"
    /\ ret.data.switching_price_eur_ton.v # Zero
    /\ ret.cp.v = ret.data.switching_price_eur_ton.v
    /\ ret.value[1].market_regime = "TRANSITION ZONE"

CompleteInterpretation ==
    LET cp == ret.cp.v
        sp == ret.data.switching_price_eur_ton.v
    IN  /\ Returned
        /\ ret.value[1].market_regime \in {"COAL-DOMINATED", "GAS-DOMINATED", "TRANSITION ZONE"}
        /\ ret.value[1].carbon_price_vs_switching.v = RSub(cp, sp)
        /\ ret.value[1].percentage_above_below_switching.v
              = RMul(RDiv(RSub(cp, sp), sp), Hundred)

\* C7 as stated: a complete result whenever the switching price is non-zero,
\* and a division-by-zero error with no result exactly when it is zero.
C7_Original ==
    Interpreted =>
       LET sp == ret.data.switching_price_eur_ton.v
       IN  /\ sp # Zero => CompleteInterpretation
           /\ (sp = Zero) <=> (ret.raised = "ZeroDivisionError"
                                /\ ret.value = <<>>)

\* C7 amended: a complete result whenever the switching price is non-zero.
\* With a zero switching price the call raises ZeroDivisionError and returns
\* nothing only when carbon price and switching price are both plain Python
\* numbers; when either is a numpy scalar, as the switching price returned by
\* calculate_switching_price is, the call returns a result whose regime and
\* signed deviation are as usual and whose percentage deviation is inf, -inf
\* or NaN.
C7_InterpretTotality ==
    Interpreted =>
       LET sp == ret.data.switching_price_eur_ton
           cp == ret.cp
       IN  /\ sp.v # Zero => (CompleteInterpretation
                              /\ IsFinite(ret.value[1].percentage_above_below_switching.v))
           /\ (sp.v = Zero /\ cp.t = "py" /\ sp.t = "py") =>
                 /\ ret.raised = "ZeroDivisionError"
                 /\ ret.value = <<>>
           /\ (sp.v = Zero /\ (cp.t = "np" \/ sp.t = "np")) =>
                 /\ CompleteInterpretation
                 /\ ~IsFinite(ret.value[1].percentage_above_below_switching.v)

\* A zero switching price returned by the calculator, interpreted without an error.
C7_Witness ==
    /\ Interpreted /\ Returned
    /\ switching_data # None /\ switching_data[1].switching_price_eur_ton.v = Zero
    /\ "coal_fuel_cost_eur_mwh" \in DOMAIN ret.data
    /\ ret.cp.t = "py" /\ RGt(ret.cp.v, Zero)
    /\ ret.value[1].percentage_above_below_switching.v = <<1, 0>>

----------------------------------------------------------------------------
(* Properties of the summary pipeline *)

Enriched == ret.op = "add_switching_analysis_to_summary"

Exported == ret.op = "prepare_bi_export"

\* The caller's summary table as it is now.
Summary == heap[summary_df[1]]

SwitchingColumns ==
    {"Switching_Price_EUR_ton", "Market_Regime",
     "Carbon_Price_vs_Switching_EUR", "Carbon_Price_vs_Switching_%"}

\* calculate_switching_price(plants_df) with its default arguments fails.
CalculatorFails ==
    \/ CoalIndices = {}
    \/ GasIndices = {}
    \/ RLe(RSub(RDiv(Q(34, 100), Q(38, 100)), RDiv(Q(20, 100), Q(55, 100))), Zero)

\* C8: when the calculator fails for the roster, the enrichment does not
\* raise; it returns the summary table with the columns and values it was
\* given, none of the four switching columns added, and prints the condition.
C8_FailureLeavesSummary ==
    (Enriched /\ CalculatorFails) =>
       /\ Returned
       /\ ret.value = summary_df
       /\ Summary = ret.before
       /\ \A c \in SwitchingColumns : ~HasColumn(Summary, c)
       /\ Len(stdout) = 1
       /\ stdout[1][1] = "Warning: Could not calculate switching price"
       /\ stdout[1][2] \in {"No coal plants found in database",
                            "No gas plants found in database"}

\* A summary with rows and a carbon price, enriched with a roster without gas.
C8_Witness ==
    /\ Enriched
    /\ CoalIndices # {} /\ GasIndices = {}
    /\ NumRows(ret.before) = MaxRows
    /\ HasColumn(ret.before, "Carbon_Price_EUR_ton")
    /\ stdout = <<<<"Warning: Could not calculate switching price",
                    "No gas plants found in database">>>>

\* C9: no operation modifies its input: after a successful enrichment the
\* table the caller passed in has the columns and values it had before, and
\* the four added columns are in the returned table only.
C9_EnrichmentLeavesInput ==
    /\ (Enriched /\ Returned /\ ~CalculatorFails) =>
          /\ Summary = ret.before
          /\ \A c \in SwitchingColumns : HasColumn(heap[ret.value[1]], c)
    /\ (Exported => Summary = ret.before)

\* C10: the export leaves the wide summary passed to it unchanged: the same
\* columns, the same row order and the same values as before the call.
C10_ExportLeavesInput ==
    Exported =>
       /\ Summary.columns = ret.before.columns
       /\ Summary.index = ret.before.index
       /\ Summary.data = ret.before.data

\* An export whose rows come out in another order than the rows of its input.
C10_Witness ==
    /\ Exported /\ Returned
    /\ ret.value # summary_df
    /\ ret.before.data["Scenario_Name"] = <<"Peak", "Base">>
    /\ NumRows(heap[ret.value[1]]) > NumRows(ret.before)
    /\ heap[ret.value[1]].data["Scenario_Name"][1] = "Base"

\* The long table the export returned.
Long == heap[ret.value[1]]

\* The wide table the export was given.
Wide == ret.before

ColumnSet(f) == {f.columns[i] : i \in 1..Len(f.columns)}

\* The identifier columns of the wide table: Scenario_Name and the optional
\* identifier columns that are present.
WideIdentifiers ==
    {"Scenario_Name"} \cup
    (ColumnSet(Wide) \cap {"Period_Type", "Season", "Demand_MW", "Carbon_Price_EUR_ton",
                           "Wind_Avail_%", "Solar_Avail_%"})

WideMetrics == ColumnSet(Wide) \ WideIdentifiers

\* Long row p is the pair (wide row i, metric m).
LongRowIs(p, i, m) ==
    /\ Long.data["KPI_Metric"][p] = m
    /\ \A c \in WideIdentifiers : Long.data[c][p] = Wide.data[c][i]
    /\ Long.data["Value"][p] = Wide.data[m][i]

\* Wide rows i and j give the same long row for metric m.
SamePair(i, j, m) ==
    /\ \A c \in WideIdentifiers : Wide.data[c][i] = Wide.data[c][j]
    /\ Wide.data[m][i] = Wide.data[m][j]

\* C11: the export has exactly one row for every pair of a wide row and a
\* metric column, the metric columns being the columns other than
\* Scenario_Name and the optional identifier columns present: R times the
\* number of metric columns rows, each with the identifier values of its wide
\* row, the metric name in KPI_Metric and the wide cell in Value; no
\* identifier column appears as a KPI_Metric.
C11_OneRowPerPair ==
    (Exported /\ Returned) =>
       /\ WideIdentifiers \subseteq ColumnSet(Long)
       /\ NumRows(Long) = NumRows(Wide) * Cardinality(WideMetrics)
       /\ \A p \in 1..NumRows(Long) : Long.data["KPI_Metric"][p] \in WideMetrics
       /\ \A i \in 1..NumRows(Wide) : \A m \in WideMetrics :
             Cardinality({p \in 1..NumRows(Long) : LongRowIs(p, i, m)})
                = Cardinality({j \in 1..NumRows(Wide) : SamePair(i, j, m)})

\* An export of a summary with an optional identifier column, two metric
\* columns and as many rows as the bound allows, all different.
C11_Witness ==
    /\ Exported /\ Returned
    /\ "Carbon_Price_EUR_ton" \in WideIdentifiers
    /\ Cardinality(WideMetrics) = 2
    /\ NumRows(Wide) = MaxRows
    /\ \A i, j \in 1..NumRows(Wide) :
          i # j => Wide.data["Scenario_Name"][i] # Wide.data["Scenario_Name"][j]
    /\ NumRows(Long) = 2 * MaxRows

----------------------------------------------------------------------------
(* Properties of the metric taxonomy *)

Classified == ret.op = "classify_metric_type"

UnitInferred == ret.op = "get_metric_unit"

\* The metric name of the call, lower-cased.
LoweredName == Lower(metric_name[1])

\* The lower-cased name contains one of the keywords, given in lower case.
NameHas(keywords) == \E k \in keywords : Contains(LoweredName, Chars(k))

EconomicSet == {"price", "cost", "revenue", "surplus", "eur"}

EnvironmentalSet == {"emissions", "carbon", "intensity", "co2", "renewable"}

TechnicalSet == {"generation", "demand", "capacity", "mw", "curtailment", "avail"}

\* C12: classify_metric_type gives every metric name exactly one category by
\* strict priority: Economic if the lower-cased name contains an economic
\* keyword, else Environmental if it contains an environmental keyword, else
\* Technical if it contains a technical keyword, else Other; letter case does
\* not matter.
C12_CategoryByPriority ==
    Classified =>
       /\ Returned
       /\ ret.value[1] = IF NameHas(EconomicSet) THEN "Economic"
                         ELSE IF NameHas(EnvironmentalSet) THEN "Environmental"
                         ELSE IF NameHas(TechnicalSet) THEN "Technical"
                         ELSE "Other"

\* A name in mixed case with keywords of all three sets, classified Economic.
C12_Witness ==
    /\ Classified
    /\ NameHas(EconomicSet) /\ NameHas(EnvironmentalSet) /\ NameHas(TechnicalSet)
    /\ LoweredName # metric_name[1]
    /\ ret.value = <<"Economic">>

\* The keywords of the unit table in its order.
UnitKeywords ==
    <<"eur", "price", "cost", "revenue", "surplus", "mw", "demand", "generation",
      "capacity", "emissions", "intensity", "share", "avail", "curtailment",
      "carbon_price">>

\* The entries of the unit table whose keyword is in the lower-cased name.
UnitMatches == {i \in 1..Len(UnitKeywords) : Contains(LoweredName, Chars(UnitKeywords[i]))}

\* C13: get_metric_unit returns the unit of the first entry of the ordered
\* keyword table whose keyword is a substring of the lower-cased name, and
\* the sentinel '-' exactly when no keyword of the table is a substring.
C13_FirstMatchingUnit ==
    UnitInferred =>
       /\ Returned
       /\ \A i \in UnitMatches :
             (\A j \in UnitMatches : i <= j) => ret.value[1] = unit_mappings[i][2]
       /\ (ret.value[1] = "-") <=> (UnitMatches = {})

\* A name that matches several entries with different units; the first wins.
C13_Witness ==
    /\ UnitInferred
    /\ \E i, j \in UnitMatches :
          /\ i < j
          /\ \A k \in UnitMatches : i <= k
          /\ unit_mappings[i][2] # unit_mappings[j][2]
          /\ ret.value = <<unit_mappings[i][2]>>

----------------------------------------------------------------------------
(* Order of the export *)

\* a <= b for Python strings
StrLe(a, b) == a = b \/ StrLt(a, b)

\* C14: the table prepare_bi_export returns is in ascending order of
\* Scenario_Name and, where Scenario_Name is equal, in ascending order of
\* KPI_Metric, whatever the row order and column order of the wide input.
C14_ExportSorted ==
    (Exported /\ Returned) =>
       \A p \in 1..(NumRows(Long) - 1) :
          \/ StrLt(Long.data["Scenario_Name"][p], Long.data["Scenario_Name"][p + 1])
          \/ /\ Long.data["Scenario_Name"][p] = Long.data["Scenario_Name"][p + 1]
             /\ StrLe(Long.data["KPI_Metric"][p], Long.data["KPI_Metric"][p + 1])

\* An export of a summary whose rows and whose metric columns both come in
\* descending order.
C14_Witness ==
    /\ Exported /\ Returned
    /\ NumRows(Wide) >= 2
    /\ StrLt(Wide.data["Scenario_Name"][2], Wide.data["Scenario_Name"][1])
    /\ \E i, j \in 1..Len(Wide.columns) :
          /\ i < j
          /\ {Wide.columns[i], Wide.columns[j]} \subseteq WideMetrics
          /\ StrLt(Wide.columns[j], Wide.columns[i])
    /\ NumRows(Long) >= 4

----------------------------------------------------------------------------
(* Round trip of the export *)

\* C15: for a wide summary with distinct scenario names, an export that
\* follows an export, either of the same summary again or of the wide table
\* rebuilt from the long table in any column order, returns a long table
\* identical to the one returned before.
C15_RoundTripStable ==
    [][(Exported /\ Returned /\ Exported') => (Returned' /\ Long' = Long)]_vars

\* An export of a rebuilt summary: metric columns first, Scenario_Name last,
\* scenarios in descending order.
C15_Witness ==
    /\ Exported /\ Returned
    /\ Wide.columns = <<"Total_Emissions_tons", "Market_Price_EUR_MWh",
                        "Carbon_Price_EUR_ton", "Scenario_Name">>
    /\ NumRows(Wide) = MaxRows
    /\ StrLt(Wide.data["Scenario_Name"][2], Wide.data["Scenario_Name"][1])
    /\ NumRows(Long) = 2 * MaxRows

----------------------------------------------------------------------------
(* The enrichment against the regime interpreter *)

\* What calculate_switching_price returns for the roster with its default arguments.
DefaultCalculation ==
    calculate_switching_price(plants_df, default_params.coal_efficiency,
        default_params.gas_efficiency, default_params.coal_emission_factor,
        default_params.gas_emission_factor)

\* What interpret_switching_price returns for the carbon price of summary row i.
RowInterpretation(i) ==
    interpret_switching_price(Num("np", Summary.data["Carbon_Price_EUR_ton"][i]),
                              DefaultCalculation.value[1])

\* C19: in every summary row the values add_switching_analysis_to_summary
\* writes agree with the regime interpreter for the row's carbon price and
\* the same switching-price result: the regime (below, above and equal), the
\* signed and the percentage deviation; every row gets the same switching price.
C19_EnrichmentAgreesWithInterpreter ==
    (Enriched /\ Returned /\ ~CalculatorFails) =>
       \A i \in 1..NumRows(Summary) :
          /\ Summary.data["Switching_Price_EUR_ton"][i]
                = DefaultCalculation.value[1].switching_price_eur_ton.v
          /\ RowInterpretation(i).raised = ""
          /\ Summary.data["Carbon_Price_vs_Switching_EUR"][i]
                = RowInterpretation(i).value[1].carbon_price_vs_switching.v
          /\ Summary.data["Carbon_Price_vs_Switching_%"][i]
                = RowInterpretation(i).value[1].percentage_above_below_switching.v
          /\ Summary.data["Market_Regime"][i]
                = RowInterpretation(i).value[1].market_regime

\* The interpreted dictionary is the one the calculator returns for the roster.
InterpretedCalculation ==
    /\ Interpreted
    /\ Returned
    /\ LET calc == calculate_switching_price(plants_df, params.coal_efficiency,
                       params.gas_efficiency, params.coal_emission_factor,
                       params.gas_emission_factor)
       IN  calc.raised = "" /\ ret.data = calc.value[1]

\* C20: for every carbon price and every result the calculator can return,
\* the percentage deviation the interpreter reports has the sign of the signed
\* deviation: positive exactly when the carbon price is above the switching
\* price, negative exactly when below, zero exactly when equal.
C20_PercentageHasSignOfDeviation ==
    InterpretedCalculation =>
       LET deviation == RSub(ret.cp.v, ret.data.switching_price_eur_ton.v)
           percentage == ret.value[1].percentage_above_below_switching.v
       IN  /\ RGt(percentage, Zero) <=> RGt(deviation, Zero)
           /\ RLt(percentage, Zero) <=> RLt(deviation, Zero)
           /\ (percentage = Zero) <=> (deviation = Zero)

----------------------------------------------------------------------------
(* Properties of the merit-order dispatch *)

Dispatched == ret.op = "run_all_scenarios"

\* The results of the last dispatch, one per scenario.
Results == ret.value[1]

DispatchedOf(result) ==
    [p \in 1..Len(result.dispatch_df) |-> result.dispatch_df[p].Dispatched_Capacity_MW]

AvailableOf(result) ==
    [p \in 1..Len(result.dispatch_df) |-> result.dispatch_df[p].Available_Capacity_MW]

RMin(a, b) == IF RLe(a, b) THEN a ELSE b

\* C16: for every non-empty roster and every scenario the dispatched
\* capacity of all plants adds up to min(demand, total available capacity),
\* and no plant is dispatched above its available capacity or below zero.
C16_DispatchMeetsDemand ==
    (Dispatched /\ plants_df # <<>>) =>
       /\ Returned
       /\ \A k \in 1..Len(Results) :
             /\ SumSeq(DispatchedOf(Results[k]))
                   = RMin(Results[k].demand_mw, SumSeq(AvailableOf(Results[k])))
             /\ \A p \in 1..Len(Results[k].dispatch_df) :
                   /\ RLe(Zero, DispatchedOf(Results[k])[p])
                   /\ RLe(DispatchedOf(Results[k])[p], AvailableOf(Results[k])[p])

\* A scenario cleared with one plant at full capacity, the next one in part
\* and a third one with capacity available not at all, next to a scenario
\* with a shortage.
C16_Witness ==
    /\ Dispatched /\ Returned
    /\ \E k \in 1..Len(Results) :
          /\ Len(Results[k].dispatch_df) = 3
          /\ RLt(Zero, AvailableOf(Results[k])[1])
          /\ DispatchedOf(Results[k])[1] = AvailableOf(Results[k])[1]
          /\ RLt(Zero, DispatchedOf(Results[k])[2])
          /\ RLt(DispatchedOf(Results[k])[2], AvailableOf(Results[k])[2])
          /\ DispatchedOf(Results[k])[3] = Zero
          /\ RLt(Zero, AvailableOf(Results[k])[3])
    /\ \E k \in 1..Len(Results) : ~Results[k].demand_met

\* The positions of the plants with dispatched capacity.
Running(result) ==
    {p \in 1..Len(result.dispatch_df) : result.dispatch_df[p].Dispatched_Capacity_MW # Zero}

\* The market price is the SRMC of the most expensive plant with dispatched capacity.
PriceOfDearestRunning(result) ==
    \E p \in Running(result) :
       /\ result.market_price_eur_mwh = result.dispatch_df[p].SRMC_EUR_MWh
       /\ \A q \in Running(result) :
             RLe(result.dispatch_df[q].SRMC_EUR_MWh, result.market_price_eur_mwh)

\* The first position whose cumulative available capacity reaches the demand, if any.
FirstReaching(result) ==
    {p \in 1..Len(result.dispatch_df) :
        /\ RLe(result.demand_mw, SumSeq(SubSeq(AvailableOf(result), 1, p)))
        /\ \A q \in 1..(p - 1) :
              RLt(SumSeq(SubSeq(AvailableOf(result), 1, q)), result.demand_mw)}

\* The price is that of the marginal plant when demand is met; in a
\* shortage every plant runs at its full available capacity.
PriceOfMarginal(result) ==
    /\ result.demand_met <=> FirstReaching(result) # {}
    /\ \A p \in FirstReaching(result) :
          result.market_price_eur_mwh = result.dispatch_df[p].SRMC_EUR_MWh
    /\ ~result.demand_met => DispatchedOf(result) = AvailableOf(result)

OnlyCarbonPriceRises(i, j) ==
    /\ scenarios_df[1][i].Demand_MW = scenarios_df[1][j].Demand_MW
    /\ scenarios_df[1][i].Wind_Availability_Percent = scenarios_df[1][j].Wind_Availability_Percent
    /\ scenarios_df[1][i].Solar_Availability_Percent = scenarios_df[1][j].Solar_Availability_Percent
    /\ RLt(scenarios_df[1][i].Carbon_Price_EUR_ton, scenarios_df[1][j].Carbon_Price_EUR_ton)

\* C18: of two scenarios that differ in the carbon price only, the one with
\* the higher carbon price does not clear at a lower market price.
C18_PriceMonotoneInCarbonPrice ==
    (Dispatched /\ Returned) =>
       \A i, j \in 1..Len(Results) :
          OnlyCarbonPriceRises(i, j) =>
             RLe(Results[i].market_price_eur_mwh, Results[j].market_price_eur_mwh)

\* Two scenarios that differ in the carbon price only, between which coal and
\* gas change places in the merit order and the price rises.
C18_Witness ==
    /\ Dispatched /\ Returned
    /\ \E i, j \in 1..Len(Results) :
          /\ OnlyCarbonPriceRises(i, j)
          /\ Results[i].marginal_technology = "Gas"
          /\ Results[j].marginal_technology = "Coal"
          /\ RLt(Results[i].market_price_eur_mwh, Results[j].market_price_eur_mwh)

----------------------------------------------------------------------------
(* Effectiveness of the unit table *)

\* The entry of the unit table that decides the unit of name: the first one
\* whose keyword is in the lower-cased name; 0 if there is none.
DecidingEntry(name) ==
    LET found == {i \in 1..Len(UnitKeywords) : Contains(Lower(name), Chars(UnitKeywords[i]))}
    IN  IF found = {} THEN 0 ELSE CHOOSE i \in found : \A j \in found : i <= j

\* The entries that decide the unit of some metric name.
EffectiveEntries == {DecidingEntry(name) : name \in MetricNames} \ {0}

\* C21: every entry of the unit table is effective: for each (keyword, unit)
\* there is a metric name whose unit is returned because that entry is the
\* first match; in particular a name containing 'carbon_price' gets the
\* unit '€/ton'.
C21_EveryUnitEntryEffective ==
    UnitInferred =>
       /\ Contains(LoweredName, Chars("carbon_price")) => ret.value = <<"€/ton">>
       /\ \A i \in 1..Len(unit_mappings) : i \in EffectiveEntries

====
